---- MODULE Spec2Model ----
(***************************************************************************)
(* Model of the Arnold USD procedural / scene-format entry points of       *)
(* procedural/main.cpp: procedural_init, procedural_cleanup,               *)
(* procedural_num_nodes, procedural_get_node, procedural_viewport,         *)
(* scene_load and scene_write, with applyProceduralSearchPath.             *)
(*                                                                         *)
(* Strings are sequences of one-character strings.  Every entry point is   *)
(* an operator that gives, for its arguments, its return value and the     *)
(* statements it executes in order; Exec runs them over the heap of        *)
(* translator objects and records the calls made.                          *)
(***************************************************************************)
EXTENDS Integers, Sequences, FiniteSets, TLC

(***************************************************************************)
(* Bounds                                                                  *)
(***************************************************************************)
MaxCacheId == 2
MaxOverrides == 2
MaxShutter == 1
MaxPrims == 2

(***************************************************************************)
(* Characters and strings                                                  *)
(***************************************************************************)
UpperChars == <<"A", "D", "S", "T", "U", "X">>
LowerChars == <<"a", "d", "s", "t", "u", "x">>

\* ::tolower on one character
tolower(c) ==
    IF \E i \in 1..Len(UpperChars) : UpperChars[i] = c
    THEN LowerChars[CHOOSE i \in 1..Len(UpperChars) : UpperChars[i] = c]
    ELSE c

\* index of the last occurrence of c in s, 0 when absent (std::string::rfind)
rfind(s, c) ==
    IF \E i \in 1..Len(s) : s[i] = c
    THEN CHOOSE i \in 1..Len(s) : s[i] = c /\ \A j \in (i+1)..Len(s) : s[j] # c
    ELSE 0

substr(s, from) == SubSeq(s, from, Len(s))

TfGetBaseName(path) ==
    IF rfind(path, "/") = 0 THEN path ELSE substr(path, rfind(path, "/") + 1)

TfStringGetSuffix(name) ==
    IF rfind(name, ".") = 0 THEN <<>> ELSE substr(name, rfind(name, ".") + 1)

TfStringGetBeforeSuffix(name) ==
    IF rfind(name, ".") = 0 THEN name ELSE SubSeq(name, 1, rfind(name, ".") - 1)

\* TfGetExtension: the suffix of the base name, empty for a dot file
TfGetExtension(path) ==
    IF path = <<>> THEN <<>>
    ELSE IF TfStringGetBeforeSuffix(TfGetBaseName(path)) = <<>> THEN <<>>
    ELSE TfStringGetSuffix(TfGetBaseName(path))

\* the extensions the USD scene format registers
SupportedExtensions ==
    { <<"u","s","d">>, <<"u","s","d","a">>, <<"u","s","d","c">> }

\* UsdStage::IsSupportedFile: a file format is looked up (case-sensitively)
\* by the text after the last dot of the base name, or by the whole string
\* when there is no dot
FileFormatExtension(path) ==
    IF path = <<>> THEN <<>>
    ELSE IF rfind(TfGetBaseName(path), ".") = 0 THEN path
    ELSE TfStringGetSuffix(TfGetBaseName(path))

IsSupportedFile(path) == FileFormatExtension(path) \in SupportedExtensions

\* std::transform(begin + basenameLength, end, begin + basenameLength, ::tolower)
LowerCaseFrom(s, basenameLength) ==
    [i \in 1..Len(s) |-> IF i > basenameLength THEN tolower(s[i]) ELSE s[i]]

(***************************************************************************)
(* Search path helpers (utils)                                             *)
(***************************************************************************)
\* position of the first "]" of s, 0 when absent
FirstClose(s) ==
    IF \E i \in 1..Len(s) : s[i] = "]"
    THEN CHOOSE i \in 1..Len(s) : s[i] = "]" /\ \A j \in 1..(i-1) : s[j] # "]"
    ELSE 0

\* ExpandEnvironmentVariables: every [NAME] is replaced by the variable's
\* value; vars is the process environment, a function from names to values
RECURSIVE ExpandEnvironmentVariables(_, _)
ExpandEnvironmentVariables(s, vars) ==
    IF s = <<>> THEN <<>>
    ELSE IF Head(s) = "[" /\ FirstClose(s) > 0
              /\ SubSeq(s, 2, FirstClose(s) - 1) \in DOMAIN vars
         THEN vars[SubSeq(s, 2, FirstClose(s) - 1)]
              \o ExpandEnvironmentVariables(substr(s, FirstClose(s) + 1), vars)
         ELSE <<Head(s)>> \o ExpandEnvironmentVariables(Tail(s), vars)

\* TokenizePath: split on any of the delimiters, empty tokens are dropped
RECURSIVE TokenizeFrom(_, _, _)
TokenizeFrom(s, delims, cur) ==
    IF s = <<>> THEN (IF cur = <<>> THEN <<>> ELSE <<cur>>)
    ELSE IF Head(s) \in delims
         THEN (IF cur = <<>> THEN <<>> ELSE <<cur>>) \o TokenizeFrom(Tail(s), delims, <<>>)
         ELSE TokenizeFrom(Tail(s), delims, Append(cur, Head(s)))

TokenizePath(path, delims) == TokenizeFrom(path, delims, <<>>)

PathJoin(dir, file) == dir \o <<"/">> \o file

DirName(path) ==
    IF rfind(path, "/") = 0 THEN <<>> ELSE SubSeq(path, 1, rfind(path, "/") - 1)

\* IsFileAccessible: dirs is the set of directories of the file system in
\* which the looked-up file exists (<<>> is the working directory)
IsFileAccessible(path, dirs) == DirName(path) \in dirs

(***************************************************************************)
(* Handlers as straight-line programs.  A handler is the sequence of the   *)
(* statements it executes for its arguments, each one an instruction       *)
(* [i, var, op, args] over the handler's local pointer variables:          *)
(*   new     var = new op()                                                *)
(*   call    var->op(args), or the free function op(args) when var = ""    *)
(*   read    var->Read(args)                                               *)
(*   delete  delete var                                                    *)
(* Exec runs a program over the heap.  heap maps every live address to     *)
(* [kind, reads, nodes]: reads counts the Read calls the instance has      *)
(* served, nodes is the length of the node list GetNodes returns.          *)
(***************************************************************************)
NULL == 0

NewObj(var, kind) == [i |-> "new", var |-> var, op |-> kind, args |-> <<>>]
Call(var, op, args) == [i |-> "call", var |-> var, op |-> op, args |-> args]
Fn(op, args) == [i |-> "call", var |-> "", op |-> op, args |-> args]
Read(var, args) == [i |-> "read", var |-> var, op |-> "Read", args |-> args]
Del(var) == [i |-> "delete", var |-> var, op |-> "delete", args |-> <<>>]

\* operator new: the lowest free address
FreeAddr(heap) ==
    CHOOSE a \in 1..(Cardinality(DOMAIN heap) + 1) :
        a \notin DOMAIN heap /\ \A b \in 1..(a-1) : b \in DOMAIN heap

\* the stage cache holds the stages registered under these ids
CachedIds == {1}

\* Reader: does the stage source open?  An empty filename builds the stage
\* from the overrides alone.
StageOpens(args, dirs) ==
    IF args[1] = "cache" THEN args[2] \in CachedIds
    ELSE IF args[2] = <<>> THEN (~args[3].null /\ args[3].n > 0)
    ELSE IsSupportedFile(args[2]) /\ IsFileAccessible(args[2], dirs)

\* the log entry of an instruction on the object at address obj: live and
\* reads are the object's state when the call is made
Event(st, ins, obj) ==
    [op |-> ins.op, obj |-> obj, args |-> ins.args,
     live |-> (obj = NULL \/ obj \in DOMAIN st.heap),
     reads |-> IF obj \in DOMAIN st.heap THEN st.heap[obj].reads ELSE 0]

\* one instruction; dirs is the file system the reader sees
Step(st, ins, dirs) ==
    LET obj == IF ins.var = "" THEN NULL ELSE st.names[ins.var] IN
    CASE ins.i = "new" ->
           LET a == FreeAddr(st.heap) IN
           [heap |-> [x \in DOMAIN st.heap \cup {a} |->
                        IF x = a THEN [kind |-> ins.op, reads |-> 0, nodes |-> 0]
                        ELSE st.heap[x]],
            names |-> [st.names EXCEPT ![ins.var] = a],
            log |-> Append(st.log, [op |-> "new", obj |-> a, args |-> <<ins.op>>,
                                    live |-> TRUE, reads |-> 0])]
      [] ins.i = "call" ->
           [st EXCEPT !.log = Append(@, Event(st, ins, obj))]
      [] ins.i = "read" ->
           \* UsdArnoldReader::Read: an unreadable source leaves the node
           \* list empty
           [heap |-> [x \in DOMAIN st.heap |->
                        IF x = obj
                        THEN [st.heap[x] EXCEPT
                                !.reads = @ + 1,
                                !.nodes = IF StageOpens(ins.args, dirs)
                                          THEN MaxPrims ELSE 0]
                        ELSE st.heap[x]],
            names |-> st.names,
            log |-> Append(st.log, Event(st, ins, obj))]
      [] ins.i = "delete" ->
           \* deleting a null pointer does nothing
           IF obj = NULL THEN st
           ELSE [heap |-> [x \in DOMAIN st.heap \ {obj} |-> st.heap[x]],
                 names |-> st.names,
                 log |-> Append(st.log, Event(st, ins, obj))]

RECURSIVE Exec(_, _, _)
Exec(st, prog, dirs) ==
    IF prog = <<>> THEN st
    ELSE Exec(CHOOSE n \in { Step(st, Head(prog), dirs) } : TRUE, Tail(prog), dirs)

(***************************************************************************)
(* applyProceduralSearchPath                                               *)
(***************************************************************************)
\* the options node of a universe; exists is FALSE for a null pointer
AiUniverseGetOptions(universe, world) == world.options[universe]

\* faulty variant: the loop does not return at the first accessible path
RECURSIVE SearchLoop_NoReturn(_, _, _, _, _)
SearchLoop_NoReturn(pathList, i, filename, found, dirs) ==
    IF i > Len(pathList) THEN [filename |-> found, prog |-> <<>>]
    ELSE LET fullPath == PathJoin(pathList[i], filename)
             rest == SearchLoop_NoReturn(pathList, i + 1, filename,
                        IF IsFileAccessible(fullPath, dirs) THEN fullPath ELSE found,
                        dirs)
         IN [filename |-> rest.filename,
             prog |-> <<Fn("IsFileAccessible", <<fullPath>>)>> \o rest.prog]

\* the for loop over pathList, from position i; found is the value filename
\* keeps when no joined path is accessible
RECURSIVE SearchLoop(_, _, _, _, _)
SearchLoop(pathList, i, filename, found, dirs) ==
    IF i > Len(pathList) THEN [filename |-> found, prog |-> <<>>]
    ELSE LET fullPath == PathJoin(pathList[i], filename) IN
         IF IsFileAccessible(fullPath, dirs)
         THEN [filename |-> fullPath,
               prog |-> <<Fn("IsFileAccessible", <<fullPath>>)>>]
         ELSE LET rest == SearchLoop(pathList, i + 1, filename, found, dirs)
              IN [filename |-> rest.filename,
                  prog |-> <<Fn("IsFileAccessible", <<fullPath>>)>> \o rest.prog]

\* filename is the value of the in/out argument on return
applyProceduralSearchPath(filename, universe, world) ==
    LET optionsNode == AiUniverseGetOptions(universe, world) IN
    IF ~optionsNode.exists
    THEN [filename |-> filename, prog |-> <<>>]
    ELSE LET proceduralPath == optionsNode.procedural_searchpath
             expandedSearchpath ==
                 ExpandEnvironmentVariables(proceduralPath, world.vars)
             pathList == TokenizePath(expandedSearchpath, {":", ";"})
         IN SearchLoop(pathList, 1, filename, filename, world.dirs)

\* the call, bracketed in the log by its argument and its result
SearchPathCall(filename, universe, world) ==
    LET r == applyProceduralSearchPath(filename, universe, world)
    IN [filename |-> r.filename,
        prog |-> r.prog \o <<Fn("applyProceduralSearchPath",
                                <<filename, r.filename, universe>>)>>]

(***************************************************************************)
(* procedural_init and the other procedural methods                        *)
(***************************************************************************)
\* faulty variant: the shutter test accepts an empty interval
InitMotionBlur_Le(camera) ==
    IF camera.exists /\ camera.shutter_start <= camera.shutter_end
    THEN <<Call("data", "SetMotionBlur",
                <<TRUE, camera.shutter_start, camera.shutter_end>>)>>
    ELSE <<Call("data", "SetMotionBlur", <<FALSE>>)>>

\* the motion blur window is taken from the render camera's shutter
InitMotionBlur(camera) ==
    IF camera.exists /\ camera.shutter_start < camera.shutter_end
    THEN LET motionStart == camera.shutter_start
             motionEnd == camera.shutter_end
         IN <<Call("data", "SetMotionBlur",
                   <<motionStart < motionEnd, motionStart, motionEnd>>)>>
    ELSE <<Call("data", "SetMotionBlur", <<FALSE>>)>>

\* faulty variant: the stage is always read by filename
InitRead_AlwaysFile(node, objectPath, world) ==
    LET r == SearchPathCall(node.filename, "default", world)
    IN r.prog \o <<Read("data", <<"file", r.filename, node.overrides, objectPath>>)>>

\* the stage comes from the stage cache when cache_id is set, from the file
\* otherwise
InitRead(node, objectPath, world) ==
    LET cache_id == node.cache_id IN
    IF cache_id # 0
    THEN <<Read("data", <<"cache", cache_id, objectPath>>)>>
    ELSE LET r == SearchPathCall(node.filename, "default", world)
         IN r.prog \o
            <<Read("data", <<"file", r.filename, node.overrides, objectPath>>)>>

\* *user_ptr = data is the address bound to "data" when the program has run
procedural_init(node, world) ==
    LET objectPath == node.object_path IN
    [ret |-> 1,
     prog |-> <<NewObj("data", "reader"),
                Call("data", "SetProceduralParent", <<"node">>),
                Call("data", "SetFrame", <<node.frame>>),
                Call("data", "SetDebug", <<node.debug>>),
                Call("data", "SetThreadCount", <<node.threads>>)>>
              \o InitMotionBlur(world.camera)
              \o InitRead(node, objectPath, world)]

procedural_cleanup(ptr) == [ret |-> 1, prog |-> <<Del("user_ptr")>>]

\* GetNodes on a reader; the size of the list it returns
GetNodesSize(h, data) == IF data \in DOMAIN h THEN h[data].nodes ELSE 0

procedural_num_nodes(h, ptr) ==
    LET data == ptr IN
    IF data # NULL
    THEN [ret |-> GetNodesSize(h, data), prog |-> <<Call("user_ptr", "GetNodes", <<>>)>>]
    ELSE [ret |-> 0, prog |-> <<>>]

\* the node handle returned for index i is the pair <<reader, i>>
procedural_get_node(ptr, i) ==
    LET data == ptr IN
    IF data # NULL
    THEN [ret |-> <<data, i>>, prog |-> <<Call("user_ptr", "GetNodes", <<i>>)>>]
    ELSE [ret |-> <<NULL, 0>>, prog |-> <<>>]

(***************************************************************************)
(* procedural_viewport                                                     *)
(***************************************************************************)
AiArrayGetNumElements(array) == array.n

\* AiParamValueMapGet*: TRUE when the map holds the key
AiParamValueMapHas(params, key) == key \in params.has

\* faulty variant: any overrides array counts, even one without elements
ViewportHasOverrides_NoCount(overrides) == ~overrides.null

ViewportHasOverrides(overrides) ==
    ~overrides.null /\ AiArrayGetNumElements(overrides) > 0

\* the checks made before the reader is created: ok is FALSE when the
\* function returns false, filename is the filename handed to Read
ViewportPrecheck(node, universe, world) ==
    LET cache_id == node.cache_id
        filename == node.filename
        hasOverrides == ViewportHasOverrides(node.overrides)
    IN IF cache_id = 0
       THEN IF filename = <<>>
            THEN IF ~hasOverrides
                 THEN [ok |-> FALSE, prog |-> <<>>, filename |-> filename]
                 ELSE [ok |-> TRUE, prog |-> <<>>, filename |-> filename]
            ELSE LET r == SearchPathCall(filename, universe, world) IN
                 IF ~IsSupportedFile(r.filename)
                 THEN [ok |-> FALSE,
                       prog |-> r.prog \o <<Fn("IsSupportedFile", <<r.filename>>),
                                            Fn("AiMsgError", <<r.filename>>)>>,
                       filename |-> r.filename]
                 ELSE [ok |-> TRUE,
                       prog |-> r.prog \o <<Fn("IsSupportedFile", <<r.filename>>)>>,
                       filename |-> r.filename]
       ELSE [ok |-> TRUE, prog |-> <<>>, filename |-> filename]

\* faulty variant: the value of "list" is ignored, its presence is enough
ViewportIsList_Present(params) ==
    ~params.null /\ AiParamValueMapHas(params, "list")

\* params && AiParamValueMapGetBool(params, "list", &listNodes) && listNodes
ViewportIsList(params) ==
    ~params.null /\ AiParamValueMapHas(params, "list") /\ params.val.list

\* the list / display sub-mode
ViewportMode(mode, params) ==
    IF ViewportIsList(params)
    THEN <<Call("reader", "SetConvertPrimitives", <<FALSE>>)>>
    ELSE <<NewObj("vpRegistry", "registry"),
           Call("reader", "SetRegistry", <<"vpRegistry", mode>>),
           Call("reader", "SetPurpose", <<"proxy">>)>>

ViewportRead(node, filename, objectPath) ==
    IF node.cache_id # 0
    THEN <<Read("reader", <<"cache", node.cache_id, objectPath>>)>>
    ELSE <<Read("reader", <<"file", filename, node.overrides, objectPath>>)>>

\* faulty variant: the registry is released before the reader has run
ViewportFinish_EarlyDelete(node, filename, objectPath) ==
    <<Del("vpRegistry")>> \o ViewportRead(node, filename, objectPath)
        \o <<Del("reader")>>

\* Read, then the registry (a null vpRegistry is skipped) and the reader
\* are released
ViewportFinish(node, filename, objectPath) ==
    ViewportRead(node, filename, objectPath) \o <<Del("vpRegistry"), Del("reader")>>

procedural_viewport(node, universe, mode, params, world) ==
    LET pre == ViewportPrecheck(node, universe, world) IN
    IF ~pre.ok THEN [ret |-> FALSE, prog |-> pre.prog]
    ELSE LET objectPath == node.object_path IN
         [ret |-> TRUE,
          prog |-> pre.prog
                   \o <<NewObj("reader", "reader"),
                        Call("reader", "SetFrame", <<node.frame>>),
                        Call("reader", "SetUniverse", <<universe>>),
                        Call("reader", "SetThreadCount", <<node.threads>>)>>
                   \o ViewportMode(mode, params)
                   \o ViewportFinish(node, pre.filename, objectPath)]

(***************************************************************************)
(* scene_load and scene_write                                              *)
(***************************************************************************)
NullArray == [null |-> TRUE, n |-> 0]

\* faulty variant: the frame and the thread count are set after the stage was read
SceneLoadRun_ReadFirst(frame, threadCount, filename) ==
    <<Read("reader", <<"file", filename, NullArray, <<>>>>),
      Call("reader", "SetFrame", <<frame>>),
      Call("reader", "SetThreadCount", <<threadCount>>),
      Del("reader")>>

\* SetFrame, SetThreadCount, Read, delete
SceneLoadRun(frame, threadCount, filename) ==
    <<Call("reader", "SetFrame", <<frame>>),
      Call("reader", "SetThreadCount", <<threadCount>>),
      Read("reader", <<"file", filename, NullArray, <<>>>>),
      Del("reader")>>

scene_load(universe, filename, params, world) ==
    IF ~IsSupportedFile(filename)
    THEN [ret |-> FALSE,
          prog |-> <<Fn("IsSupportedFile", <<filename>>),
                     Fn("AiMsgError", <<filename>>)>>]
    ELSE LET frame == IF ~params.null /\ AiParamValueMapHas(params, "frame")
                      THEN params.val.frame ELSE world.options["default"].frame
             threadCount == IF ~params.null /\ AiParamValueMapHas(params, "threads")
                            THEN params.val.threads ELSE 0
         IN [ret |-> TRUE,
             prog |-> <<Fn("IsSupportedFile", <<filename>>),
                        NewObj("reader", "reader"),
                        Call("reader", "SetUniverse", <<universe>>)>>
                      \o (IF ~params.null /\ AiParamValueMapHas(params, "mask")
                          THEN <<Call("reader", "SetMask", <<params.val.mask>>)>>
                          ELSE <<>>)
                      \o SceneLoadRun(frame, threadCount, filename)]

\* faulty variant: the whole filename is lower-cased
LowerCaseExtension_All(filenameStr) == LowerCaseFrom(filenameStr, 0)

\* the extension of filenameStr is lower-cased in place
LowerCaseExtension(filenameStr) ==
    LET extension == TfGetExtension(filenameStr)
        basenameLength == Len(filenameStr) - Len(extension)
    IN LowerCaseFrom(filenameStr, basenameLength)

\* the target filename: ok is FALSE when the target is rejected
WriteTarget(filename) ==
    IF ~IsSupportedFile(filename)
    THEN LET filenameStr == LowerCaseExtension(filename) IN
         IF IsSupportedFile(filenameStr)
         THEN [ok |-> TRUE, filenameStr |-> filenameStr,
               prog |-> <<Fn("IsSupportedFile", <<filename>>),
                          Fn("IsSupportedFile", <<filenameStr>>),
                          Fn("AiMsgWarning", <<filenameStr>>)>>]
         ELSE [ok |-> FALSE, filenameStr |-> filenameStr,
               prog |-> <<Fn("IsSupportedFile", <<filename>>),
                          Fn("IsSupportedFile", <<filenameStr>>),
                          Fn("AiMsgError", <<filenameStr>>)>>]
    ELSE [ok |-> TRUE, filenameStr |-> filename,
          prog |-> <<Fn("IsSupportedFile", <<filename>>)>>]

\* the optional setters of the writer
WriterConfigure(params) ==
    IF params.null THEN <<>>
    ELSE (IF AiParamValueMapHas(params, "mask")
          THEN <<Call("writer", "SetMask", <<params.val.mask>>)>> ELSE <<>>)
         \o (IF AiParamValueMapHas(params, "scope")
             THEN <<Call("writer", "SetScope", <<params.val.scope>>)>> ELSE <<>>)
         \o (IF AiParamValueMapHas(params, "all_attributes")
             THEN <<Call("writer", "SetWriteAllAttributes",
                         <<params.val.all_attributes>>)>>
             ELSE <<>>)

\* stageOpens: does UsdStage::Open(SdfLayer::CreateNew(...)) return a stage
scene_write(universe, filename, params, stageOpens) ==
    LET t == WriteTarget(filename) IN
    IF ~t.ok THEN [ret |-> FALSE, prog |-> t.prog]
    ELSE IF ~stageOpens
         THEN [ret |-> FALSE,
               prog |-> t.prog \o <<Fn("CreateNew", <<t.filenameStr, stageOpens>>),
                                    Fn("AiMsgError", <<t.filenameStr>>)>>]
         ELSE [ret |-> TRUE,
               prog |-> t.prog
                        \o <<Fn("CreateNew", <<t.filenameStr, stageOpens>>),
                             NewObj("writer", "writer"),
                             Call("writer", "SetUsdStage", <<t.filenameStr>>)>>
                        \o WriterConfigure(params)
                        \o <<Call("writer", "Write", <<universe>>),
                             Fn("Save", <<t.filenameStr>>),
                             Fn("AiMsgInfo", <<t.filenameStr>>),
                             Del("writer")>>]

(***************************************************************************)
(* Inputs                                                                  *)
(***************************************************************************)
a_usd == <<"a", ".", "u", "s", "d">>
a_USD == <<"a", ".", "U", "S", "D">>
a_txt == <<"a", ".", "t", "x", "t">>

ProcFilenames == { <<>>, a_usd, a_USD, a_txt }

LoadFilenames ==
    { <<>>, a_usd, a_USD, a_txt, <<"p", "/", "a", ".", "u", "s", "d", "a">> }

WriteFilenames ==
    { <<>>, a_usd, a_USD, a_txt,
      <<"A", ".", "U", "S", "D">>,
      <<"A", ".", "U", "s", "d", "a">>,
      <<"A", ".", "T", "X", "T">>,
      <<".", "U", "S", "D">>,
      <<"A", "D">>,
      <<"D", "/", "A", ".", "x", ".", "U", "S", "D">> }

Arrays ==
    { NullArray } \cup { [null |-> FALSE, n |-> k] : k \in 0..MaxOverrides }

Cameras ==
    { [exists |-> FALSE, shutter_start |-> 0, shutter_end |-> 0] } \cup
    { [exists |-> TRUE, shutter_start |-> b, shutter_end |-> e] :
        b \in 0..MaxShutter, e \in 0..MaxShutter }

NoCamera == [exists |-> FALSE, shutter_start |-> 0, shutter_end |-> 0]

Nodes ==
    { [filename |-> f, object_path |-> <<"/", "a">>, frame |-> 1, debug |-> FALSE,
       threads |-> 0, overrides |-> o, cache_id |-> c] :
        f \in ProcFilenames, o \in Arrays, c \in 0..MaxCacheId }

NoOptions == [exists |-> FALSE, procedural_searchpath |-> <<>>, frame |-> 0]
Options(searchpath) == [exists |-> TRUE, procedural_searchpath |-> searchpath, frame |-> 2]

EnvVars == [n \in { <<"H">> } |-> <<"p">>]

\* one record per environment: the options node of each universe, the
\* process environment and the directories in which the file exists
Env(default, viewport, dirs) ==
    [options |-> [default |-> default, viewport |-> viewport],
     vars |-> EnvVars, dirs |-> dirs]

Envs ==
    { Env(NoOptions, NoOptions, { <<"p">> }),
      Env(Options(<<>>), Options(<<>>), { <<>>, <<"p">> }),
      Env(Options(<<"p", ":", "q">>), Options(<<"p", ":", "q">>), {}),
      Env(Options(<<"p", ":", "q">>), Options(<<"q", ":", "p">>), { <<"p">>, <<"q">> }),
      Env(Options(<<"p", ";", "q">>), Options(<<"p", ";", "q">>), { <<>>, <<"q">> }),
      Env(Options(<<"[", "H", "]", ":", "q">>), Options(<<"x", ";", "[", "H", "]">>),
          { <<"p">>, <<"q">> }),
      Env(Options(<<":", "q", ":">>), Options(<<";", ";", "q">>), { <<"q">> }),
      Env(Options(<<"p">>), NoOptions, { <<"p">> }),
      Env(Options(<<"p", ":", "q">>), Options(<<"p", ":", "q">>), { <<>> }) }

World(env, camera) ==
    [options |-> env.options, vars |-> env.vars, dirs |-> env.dirs, camera |-> camera]

NullParams(val) == [null |-> TRUE, has |-> {}, val |-> val]
Params(has, val) == [null |-> FALSE, has |-> has, val |-> val]

ViewportParams ==
    { NullParams([list |-> FALSE]), Params({}, [list |-> FALSE]),
      Params({"list"}, [list |-> FALSE]), Params({"list"}, [list |-> TRUE]) }

ViewportModes == { "AI_PROC_BOXES", "AI_PROC_POINTS" }

LoadVal == [frame |-> 3, threads |-> 4, mask |-> 5]
LoadParams ==
    { NullParams(LoadVal), Params({}, LoadVal), Params({"frame"}, LoadVal),
      Params({"mask"}, LoadVal), Params({"frame", "threads", "mask"}, LoadVal) }

WriteVal == [mask |-> 5, scope |-> <<"/", "s">>, all_attributes |-> TRUE]
WriteParams ==
    { NullParams(WriteVal), Params({}, WriteVal), Params({"mask"}, WriteVal),
      Params({"scope"}, WriteVal), Params({"all_attributes"}, WriteVal),
      Params({"mask", "scope", "all_attributes"}, WriteVal) }

(***************************************************************************)
(* State                                                                   *)
(*   heap        the live translator objects                               *)
(*   user_ptr    the pointer the host keeps for the procedural node        *)
(*   proc_state  "uninit", "init" (between init and cleanup) or "clean"    *)
(*   call        the entry point that has returned, with its arguments and *)
(*               return value; [op |-> "none"] when the host is idle       *)
(*   log         the calls that entry point made, in order                 *)
(***************************************************************************)
VARIABLES heap, user_ptr, proc_state, call, log

vars == <<heap, user_ptr, proc_state, call, log>>

Idle == call.op = "none"

LocalVars == {"data", "reader", "vpRegistry", "writer", "user_ptr"}

\* the execution state at the entry of a handler: the locals are null, but
\* user_ptr, which the host passes in
Start ==
    [heap |-> heap,
     names |-> [v \in LocalVars |-> IF v = "user_ptr" THEN user_ptr ELSE NULL],
     log |-> <<>>]

Init ==
    /\ heap = <<>>
    /\ user_ptr = NULL
    /\ proc_state = "uninit"
    /\ call = [op |-> "none"]
    /\ log = <<>>

(***************************************************************************)
(* The host drives one procedural node through the procedural methods in   *)
(* the order of the procedural API: procedural_init, then                  *)
(* procedural_num_nodes and procedural_get_node for the indices below the  *)
(* count, then procedural_cleanup; a change of a "_triggers_reload"        *)
(* parameter starts the cycle again.  procedural_viewport, scene_load and  *)
(* scene_write may be called at any time.  A handler runs to its return    *)
(* as one step.                                                            *)
(***************************************************************************)
\* the host initialises the procedural node (first time or after a reload)
Call_procedural_init ==
    /\ Idle
    /\ proc_state \in {"uninit", "clean"}
    /\ \E node \in Nodes, env \in Envs, camera \in Cameras :
         \E world \in { World(env, camera) } :
         \E r \in { procedural_init(node, world) } :
         \E st \in { Exec(Start, r.prog, world.dirs) } :
            /\ heap' = st.heap
            /\ log' = st.log
            /\ user_ptr' = st.names["data"]
            /\ proc_state' = "init"
            /\ call' = [op |-> "procedural_init", node |-> node, world |-> world,
                        ret |-> r.ret]

Call_procedural_cleanup ==
    /\ Idle
    /\ proc_state = "init"
    /\ \E r \in { procedural_cleanup(user_ptr) } :
       \E st \in { Exec(Start, r.prog, {}) } :
          /\ heap' = st.heap
          /\ log' = st.log
          /\ proc_state' = "clean"
          /\ call' = [op |-> "procedural_cleanup", ptr |-> user_ptr, ret |-> r.ret]
    /\ UNCHANGED user_ptr

Call_procedural_num_nodes ==
    /\ Idle
    /\ proc_state \in {"uninit", "init"}
    /\ \E r \in { procedural_num_nodes(heap, user_ptr) } :
       \E st \in { Exec(Start, r.prog, {}) } :
          /\ log' = st.log
          /\ call' = [op |-> "procedural_num_nodes", ptr |-> user_ptr, ret |-> r.ret]
    /\ UNCHANGED <<heap, user_ptr, proc_state>>

\* the host asks for the nodes 0 .. num_nodes - 1
Call_procedural_get_node ==
    /\ Idle
    /\ proc_state \in {"uninit", "init"}
    /\ \E i \in 0..(MaxPrims - 1) :
         /\ user_ptr = NULL \/ i < GetNodesSize(heap, user_ptr)
         /\ user_ptr = NULL => i = 0
         /\ \E r \in { procedural_get_node(user_ptr, i) } :
            \E st \in { Exec(Start, r.prog, {}) } :
               /\ log' = st.log
               /\ call' = [op |-> "procedural_get_node", ptr |-> user_ptr, i |-> i,
                           ret |-> r.ret]
    /\ UNCHANGED <<heap, user_ptr, proc_state>>

Call_procedural_viewport ==
    /\ Idle
    /\ \E node \in Nodes, env \in Envs, mode \in ViewportModes,
          params \in ViewportParams :
         \E world \in { World(env, NoCamera) } :
         \E r \in { procedural_viewport(node, "viewport", mode, params, world) } :
         \E st \in { Exec(Start, r.prog, world.dirs) } :
            /\ heap' = st.heap
            /\ log' = st.log
            /\ call' = [op |-> "procedural_viewport", node |-> node, world |-> world,
                        universe |-> "viewport", mode |-> mode, params |-> params,
                        ret |-> r.ret]
    /\ UNCHANGED <<user_ptr, proc_state>>

Call_scene_load ==
    /\ Idle
    /\ \E filename \in LoadFilenames, env \in Envs, params \in LoadParams :
         \E world \in { World(env, NoCamera) } :
         \E r \in { scene_load("default", filename, params, world) } :
         \E st \in { Exec(Start, r.prog, world.dirs) } :
            /\ heap' = st.heap
            /\ log' = st.log
            /\ call' = [op |-> "scene_load", filename |-> filename, world |-> world,
                        universe |-> "default", params |-> params, ret |-> r.ret]
    /\ UNCHANGED <<user_ptr, proc_state>>

Call_scene_write ==
    /\ Idle
    /\ \E filename \in WriteFilenames, params \in WriteParams, stageOpens \in BOOLEAN :
         \E r \in { scene_write("default", filename, params, stageOpens) } :
         \E st \in { Exec(Start, r.prog, {}) } :
            /\ heap' = st.heap
            /\ log' = st.log
            /\ call' = [op |-> "scene_write", filename |-> filename,
                        universe |-> "default", params |-> params,
                        stageOpens |-> stageOpens, ret |-> r.ret]
    /\ UNCHANGED <<user_ptr, proc_state>>

\* the host takes the return value and goes on
HostReturn ==
    /\ ~Idle
    /\ call' = [op |-> "none"]
    /\ log' = <<>>
    /\ UNCHANGED <<heap, user_ptr, proc_state>>

Next ==
    \/ Call_procedural_init
    \/ Call_procedural_cleanup
    \/ Call_procedural_num_nodes
    \/ Call_procedural_get_node
    \/ Call_procedural_viewport
    \/ Call_scene_load
    \/ Call_scene_write
    \/ HostReturn

Spec == Init /\ [][Next]_vars

(***************************************************************************)
(* Properties.  They are stated over the entry point that has returned     *)
(* (call), the calls it made (log) and the heap it left.                   *)
(***************************************************************************)
Has(op) == \E i \in DOMAIN log : log[i].op = op

Count(op) == Cardinality({ i \in DOMAIN log : log[i].op = op })

Setters ==
    { "SetProceduralParent", "SetFrame", "SetDebug", "SetThreadCount",
      "SetMotionBlur", "SetUniverse", "SetMask", "SetRegistry", "SetPurpose",
      "SetConvertPrimitives" }

\* the positions of the log where an object is allocated
News == { i \in DOMAIN log : log[i].op = "new" }

\* the filename a procedural call reads after search path resolution
Resolved(universe) ==
    applyProceduralSearchPath(call.node.filename, universe, call.world).filename

\* C1: every entry point that reads a stage by filename reports an
\* unsupported filename as a failure and makes no Read call.
C1_UnsupportedAborts ==
    /\ (call.op = "procedural_init" /\ call.node.cache_id = 0
          /\ ~IsSupportedFile(Resolved("default")))
       => (call.ret # 1 /\ ~Has("Read"))
    /\ (call.op = "procedural_viewport" /\ call.node.cache_id = 0
          /\ call.node.filename # <<>> /\ ~IsSupportedFile(Resolved("viewport")))
       => (call.ret = FALSE /\ ~Has("Read"))
    /\ (call.op = "scene_load" /\ ~IsSupportedFile(call.filename))
       => (call.ret = FALSE /\ ~Has("Read"))

\* C2: in procedural_init and procedural_viewport a non-zero cache_id is
\* read with Read(cache_id, objectPath), a zero cache_id with
\* Read(filename, overrides, objectPath), and a call that reaches Read makes
\* exactly one Read call.
C2_ReadForm ==
    call.op \in {"procedural_init", "procedural_viewport"} =>
      /\ Count("Read") <= 1
      /\ (call.op = "procedural_init" \/ call.ret = TRUE) => Count("Read") = 1
      /\ \A i \in DOMAIN log : log[i].op = "Read" =>
           IF call.node.cache_id # 0
           THEN /\ log[i].args[1] = "cache"
                /\ Len(log[i].args) = 3
                /\ log[i].args[2] = call.node.cache_id
                /\ log[i].args[3] = call.node.object_path
                /\ ~Has("applyProceduralSearchPath")
           ELSE /\ log[i].args[1] = "file"
                /\ Len(log[i].args) = 4
                /\ log[i].args[2] =
                     (IF call.op = "procedural_init" THEN Resolved("default")
                      ELSE IF call.node.filename = <<>> THEN <<>>
                      ELSE Resolved("viewport"))
                /\ log[i].args[3] = call.node.overrides
                /\ log[i].args[4] = call.node.object_path

C2_Witness ==
    /\ call.op = "procedural_init"
    /\ call.node.cache_id # 0
    /\ call.node.filename # <<>>
    /\ \E i \in DOMAIN log : log[i].op = "Read" /\ log[i].args[1] = "cache"

\* C3: a reader serves at most one Read, every setter call on it comes
\* before its Read, GetNodes is asked only after its Read, and no call is
\* made on a deleted reader.
C3_SingleUse ==
    /\ \A a \in DOMAIN heap : heap[a].reads <= 1
    /\ \A i \in DOMAIN log :
         /\ log[i].op = "Read" => (log[i].live /\ log[i].reads = 0)
         /\ log[i].op \in Setters => (log[i].live /\ log[i].reads = 0)
         /\ log[i].op = "GetNodes" => (log[i].live /\ log[i].reads = 1)

C3_Witness ==
    /\ call.op = "procedural_get_node"
    /\ call.i = MaxPrims - 1
    /\ \E i \in DOMAIN log : log[i].op = "GetNodes" /\ log[i].reads = 1

\* C4: motion blur is enabled only with start < end: procedural_init
\* enables it with the camera's shutter exactly when a render camera exists
\* and shutter_start < shutter_end, disables it otherwise, and no other
\* entry point enables it.
C4_MotionBlurWindow ==
    /\ \A i \in DOMAIN log : log[i].op = "SetMotionBlur" =>
         /\ call.op = "procedural_init"
         /\ IF call.world.camera.exists
               /\ call.world.camera.shutter_start < call.world.camera.shutter_end
            THEN log[i].args = <<TRUE, call.world.camera.shutter_start,
                                 call.world.camera.shutter_end>>
            ELSE log[i].args = <<FALSE>>
         /\ log[i].args[1] => log[i].args[2] < log[i].args[3]
    /\ call.op = "procedural_init" => Count("SetMotionBlur") = 1

C4_Witness ==
    /\ call.op = "procedural_init"
    /\ \E i \in DOMAIN log :
         /\ log[i].op = "SetMotionBlur"
         /\ log[i].args[1]
         /\ log[i].args[2] < log[i].args[3]

\* the "list" parameter is present and true
ListRequested == ~call.params.null /\ "list" \in call.params.has /\ call.params.val.list

\* C5: a procedural_viewport call that reaches Read has set the reader's
\* universe to its universe argument and never its procedural parent, and
\* runs in exactly one sub-mode: list (convert-primitives off, no registry,
\* purpose untouched) or display (a registry for the mode, purpose "proxy").
C5_ViewportIsolated ==
    (call.op = "procedural_viewport" /\ Has("Read")) =>
      \A r \in DOMAIN log : log[r].op = "Read" =>
        /\ \E i \in 1..(r-1) : /\ log[i].op = "SetUniverse"
                               /\ log[i].obj = log[r].obj
                               /\ log[i].args = <<call.universe>>
        /\ ~Has("SetProceduralParent")
        /\ IF ListRequested
           THEN /\ \E i \in 1..(r-1) : /\ log[i].op = "SetConvertPrimitives"
                                       /\ log[i].obj = log[r].obj
                                       /\ log[i].args = <<FALSE>>
                /\ ~Has("SetRegistry") /\ ~Has("SetPurpose")
                /\ \A i \in News : log[i].args # <<"registry">>
           ELSE /\ \E i \in 1..(r-1) : /\ log[i].op = "SetRegistry"
                                       /\ log[i].obj = log[r].obj
                                       /\ log[i].args[2] = call.mode
                /\ \E i \in 1..(r-1) : /\ log[i].op = "SetPurpose"
                                       /\ log[i].obj = log[r].obj
                                       /\ log[i].args = <<"proxy">>
                /\ Cardinality({ i \in News : log[i].args = <<"registry">> }) = 1
                /\ ~Has("SetConvertPrimitives")

C5_Witness ==
    /\ call.op = "procedural_viewport"
    /\ Has("Read")
    /\ ListRequested
    /\ Has("SetConvertPrimitives")

\* g is f with the characters of its extension lower-cased and every
\* other character, the base name and the dot, unchanged
ExtensionLowered(f, g) ==
    /\ Len(g) = Len(f)
    /\ \A i \in 1..Len(f) :
         g[i] = IF i > Len(f) - Len(TfGetExtension(f)) THEN tolower(f[i]) ELSE f[i]
    /\ (rfind(f, ".") > 0 /\ TfGetExtension(f) # <<>>)
         => SubSeq(g, 1, rfind(f, ".")) = SubSeq(f, 1, rfind(f, "."))

\* the target filename has a supported form, as given or with its
\* extension lower-cased
SupportedTarget(f) ==
    \/ IsSupportedFile(f)
    \/ IsSupportedFile(LowerCaseFrom(f, Len(f) - Len(TfGetExtension(f))))

\* C6: scene_write uses a supported filename unchanged, otherwise writes
\* to the filename with only its extension lower-cased, with a warning,
\* when that is supported; it returns false, with no stage and no writer,
\* exactly when neither form is supported or the stage cannot be created.
C6_LowerCaseFallback ==
    call.op = "scene_write" =>
      /\ \A i \in DOMAIN log : log[i].op = "CreateNew" =>
           IF IsSupportedFile(call.filename)
           THEN log[i].args[1] = call.filename /\ ~Has("AiMsgWarning")
           ELSE /\ ExtensionLowered(call.filename, log[i].args[1])
                /\ IsSupportedFile(log[i].args[1])
                /\ \E w \in 1..(i-1) : /\ log[w].op = "AiMsgWarning"
                                       /\ log[w].args = <<log[i].args[1]>>
      /\ call.ret = FALSE <=> (~SupportedTarget(call.filename) \/ ~call.stageOpens)
      /\ ~SupportedTarget(call.filename) => ~Has("CreateNew")
      /\ call.ret = FALSE => (News = {} /\ ~Has("Write") /\ ~Has("Save"))
      /\ call.ret = TRUE => (Has("Write") /\ Has("Save"))

C6_Witness ==
    /\ call.op = "scene_write"
    /\ ~IsSupportedFile(call.filename)
    /\ call.ret = TRUE
    /\ \E i \in DOMAIN log : /\ log[i].op = "Save"
                             /\ log[i].args[1] # call.filename
                             /\ log[i].args[1][1] = "A"

\* the directories of the search path of the call logged at position k
SearchDirs(k) ==
    LET opts == call.world.options[log[k].args[3]] IN
    IF ~opts.exists THEN <<>>
    ELSE TokenizePath(ExpandEnvironmentVariables(opts.procedural_searchpath,
                                                 call.world.vars), {":", ";"})

\* the paths probed with IsFileAccessible, in order
Probes ==
    LET idx == { i \in DOMAIN log : log[i].op = "IsFileAccessible" }
        nth(n) == CHOOSE i \in idx : Cardinality({ j \in idx : j < i }) = n - 1
    IN [n \in 1..Cardinality(idx) |-> log[nth(n)].args[1]]

\* C7: applyProceduralSearchPath replaces filename by its join with the
\* first directory of the tokenized, expanded search path whose joined path
\* is accessible, without consulting later directories, and leaves it
\* unchanged without an options node, with an empty path or without a match.
C7_FirstMatchWins ==
    \A k \in DOMAIN log : log[k].op = "applyProceduralSearchPath" =>
      LET in == log[k].args[1]
          out == log[k].args[2]
          dirs == SearchDirs(k)
          hits == { i \in DOMAIN dirs :
                      IsFileAccessible(PathJoin(dirs[i], in), call.world.dirs) }
      IN /\ \A i \in DOMAIN dirs :
              /\ dirs[i] # <<>>
              /\ \A j \in DOMAIN dirs[i] : dirs[i][j] \notin {":", ";", "[", "]"}
         /\ IF hits = {}
            THEN /\ out = in
                 /\ Probes = [i \in DOMAIN dirs |-> PathJoin(dirs[i], in)]
            ELSE \E m \in hits :
                   /\ \A i \in hits : m <= i
                   /\ out = dirs[m] \o <<"/">> \o in
                   /\ Probes = [i \in 1..m |-> PathJoin(dirs[i], in)]

C7_Witness ==
    \E k \in DOMAIN log :
      /\ log[k].op = "applyProceduralSearchPath"
      /\ log[k].args[1] # <<>>
      /\ log[k].args[2] # log[k].args[1]
      /\ Len(Probes) = 1
      /\ Len(SearchDirs(k)) = 2
      /\ IsFileAccessible(PathJoin(SearchDirs(k)[2], log[k].args[1]), call.world.dirs)

\* the source of a scene_load opens: it is a supported stage file that exists
SourceOpens == IsSupportedFile(call.filename)
                 /\ DirName(call.filename) \in call.world.dirs

\* the setters between SetUsdStage and Write are those whose parameter is
\* present, in the order mask, scope, all-attributes
WriterSequence ==
    LET calls == SelectSeq(log, LAMBDA e : e.obj # NULL /\ e.op # "new")
        opt(key, op) == IF ~call.params.null /\ key \in call.params.has
                        THEN <<op>> ELSE <<>>
        expected == <<"SetUsdStage">> \o opt("mask", "SetMask")
                      \o opt("scope", "SetScope")
                      \o opt("all_attributes", "SetWriteAllAttributes")
                      \o <<"Write", "delete">>
    IN /\ [i \in DOMAIN calls |-> calls[i].op] = expected
       /\ \E w \in DOMAIN log, v \in DOMAIN log :
            log[w].op = "Write" /\ log[v].op = "Save" /\ w < v

\* C8: scene_write returns false exactly when the target is unsupported or
\* the stage cannot be created, scene_load returns false exactly when the
\* source cannot be opened or is unsupported, and a successful scene_write
\* runs SetUsdStage, the optional setters, Write and Save in that order.
C8_OnlyOpenFailuresFatal ==
    /\ call.op = "scene_write" =>
         /\ call.ret = FALSE <=> (~SupportedTarget(call.filename) \/ ~call.stageOpens)
         /\ call.ret = TRUE => WriterSequence
    /\ call.op = "scene_load" => (call.ret = FALSE <=> ~SourceOpens)

\* C9: with cache_id = 0 and an empty filename procedural_viewport returns
\* false without a reader exactly when overrides is absent or empty, and
\* otherwise goes to Read(filename, overrides, objectPath) without search
\* path resolution or supported-file check; with cache_id # 0 it goes to
\* Read without examining filename or overrides.
C9_EmptyFilename ==
    call.op = "procedural_viewport" =>
      /\ (call.node.cache_id = 0 /\ call.node.filename = <<>>) =>
           /\ (call.ret = FALSE /\ News = {})
                <=> (call.node.overrides.null \/ call.node.overrides.n = 0)
           /\ call.ret = FALSE \/ News # {}
           /\ ~Has("applyProceduralSearchPath") /\ ~Has("IsSupportedFile")
           /\ ~(call.node.overrides.null \/ call.node.overrides.n = 0) =>
                \E i \in DOMAIN log :
                  /\ log[i].op = "Read"
                  /\ log[i].args = <<"file", <<>>, call.node.overrides,
                                     call.node.object_path>>
      /\ call.node.cache_id # 0 =>
           /\ call.ret = TRUE
           /\ ~Has("applyProceduralSearchPath") /\ ~Has("IsSupportedFile")
           /\ \E i \in DOMAIN log : log[i].op = "Read" /\ log[i].args[1] = "cache"

C9_Witness ==
    /\ call.op = "procedural_viewport"
    /\ call.node.cache_id = 0
    /\ call.node.filename = <<>>
    /\ call.node.overrides.n > 0
    /\ Has("Read")

\* C10: procedural_viewport, scene_load and scene_write delete every object
\* they allocate exactly once before returning, allocate nothing on a path
\* that returns false, and delete the viewport registry after Read; the
\* reader of procedural_init is kept in user_ptr and deleted exactly once,
\* by procedural_cleanup.
C10_NoLeakNoDoubleFree ==
    /\ \A i \in DOMAIN log : log[i].op = "delete" => log[i].live
    /\ DOMAIN heap = IF proc_state = "init" THEN {user_ptr} ELSE {}
    /\ call.op \in {"procedural_viewport", "scene_load", "scene_write"} =>
         /\ \A n \in News :
              /\ Cardinality({ d \in DOMAIN log :
                     log[d].op = "delete" /\ log[d].obj = log[n].obj }) = 1
              /\ \E d \in DOMAIN log :
                     log[d].op = "delete" /\ log[d].obj = log[n].obj /\ n < d
              /\ log[n].args = <<"registry">> =>
                   \E r \in DOMAIN log, d \in DOMAIN log :
                     /\ log[r].op = "Read"
                     /\ log[d].op = "delete" /\ log[d].obj = log[n].obj
                     /\ n < r /\ r < d
         /\ Count("delete") = Cardinality(News)
         /\ call.ret = FALSE => News = {}
    /\ call.op = "procedural_init" =>
         /\ Cardinality(News) = 1
         /\ \A n \in News : log[n].obj = user_ptr
         /\ ~Has("delete")
    /\ call.op = "procedural_cleanup" =>
         /\ Count("delete") = 1
         /\ \A i \in DOMAIN log : log[i].op = "delete" => log[i].obj = user_ptr
    /\ call.op \in {"procedural_num_nodes", "procedural_get_node"} =>
         (News = {} /\ ~Has("delete"))

C10_Witness ==
    /\ call.op = "procedural_viewport"
    /\ proc_state = "init"
    /\ \E n \in News : log[n].args = <<"registry">>
    /\ Count("delete") = 2
    /\ DOMAIN heap = {user_ptr}

====
